---- MODULE Spec2Model ----
(***************************************************************************)
(* DOMLabelCollection (src/unnamed/part_000): an observable collection of  *)
(* DOMLabel instances keyed by id.  The model covers the collection's      *)
(* contents, the DOM children of its container, the pending added/removed  *)
(* arrays and the re-entrancy bookkeeping of fireChangedEvent.             *)
(*                                                                         *)
(* Listeners of collectionChanged are arbitrary callbacks: while           *)
(* raiseEvent is on the stack (depth > 0) they may call add, remove,       *)
(* removeById and removeAll.  A call made while _firing is set is one      *)
(* atomic step (fireChangedEvent only sets _refire); a call that starts a  *)
(* delivery is the step up to the raiseEvent call, and raiseEventReturns   *)
(* is the rest of the do/while loop.                                       *)
(***************************************************************************)
EXTENDS Naturals, Sequences, FiniteSets, TLC

\* Deliveries of one top-level call after which listeners make no more calls.
MaxFires == 3
\* Calls reaching fireChangedEvent that listeners make during one delivery.
MaxCalls == 2
\* renderFrame listeners on scene.preRender after which show is not set again.
MaxListeners == 3

Undefined == "undefined"

\* DOMLabel objects.  a1 and a2 are distinct objects with the same id.
Labels == {"a1", "a2", "b1"}
idOf == [l \in Labels |-> IF l = "b1" THEN "b" ELSE "a"]
\* Arguments of removeById: ids in use, an unused id, undefined.
IdArgs == {"a", "b", "z", Undefined}
\* Arguments of remove: label objects, undefined.
LabelArgs == Labels \cup {Undefined}

VARIABLES
    labels,         \* this._labels (AssociativeArray, as its value array)
    addedLabels,    \* this._addedLabels
    removedLabels,  \* this._removedLabels
    container,      \* labels whose element is a child of this._container
    firing,         \* this._firing
    refire,         \* this._refire
    depth,          \* raiseEvent frames on the call stack
    cur,            \* arguments of the latest raiseEvent call
    fires,          \* raiseEvent calls made during the current top-level call
    calls,          \* listener calls reaching fireChangedEvent, this delivery
    dirty,          \* deliveries of this top-level call with such a call
    top,            \* the current / latest top-level call
    last,           \* the step just taken
    thrown,         \* an exception has left a listener
    observer,       \* a mirroring listener is subscribed to collectionChanged
    mirror,         \* the labels that listener holds
    show,           \* this._show
    containerDisplay, \* this._container.style.display
    preRender,      \* scopes of the renderFrame listeners of scene.preRender
    labelShow,      \* label._show, for each label
    view,           \* where the scene has each label's _position
    style,          \* display, top and left of each label's element
    syncs           \* renderFrame calls made by the latest rendered frame

frameVars == <<show, containerDisplay, preRender, labelShow, view, style, syncs>>

vars == <<labels, addedLabels, removedLabels, container, firing, refire,
          depth, cur, fires, calls, dirty, top, last, thrown, observer, mirror,
          frameVars>>

Range(s) == {s[i] : i \in 1..Len(s)}
defined(x) == x # Undefined

(***************************************************************************)
(* Core/AssociativeArray, as used by the collection: a hash from key to    *)
(* value together with the array of values in insertion order.  The array  *)
(* is the state; the hash is the lookup by id.                             *)
(***************************************************************************)
AAcontains(aa, id) == \E i \in 1..Len(aa) : idOf[aa[i]] = id
AAget(aa, id) ==
    IF AAcontains(aa, id)
    THEN aa[CHOOSE i \in 1..Len(aa) : idOf[aa[i]] = id]
    ELSE Undefined
AAremove(aa, id) == SelectSeq(aa, LAMBDA l : idOf[l] # id)
AAset(aa, id, l) == IF AAget(aa, id) = l THEN aa ELSE Append(AAremove(aa, id), l)
AAremoveAll(aa) == <<>>

Empty == <<>>
NoEvent == [added |-> Empty, removed |-> Empty]

\* The listener of the observer: insert the added labels, delete the removed.
applyEvent(m, ev) == (m \cup Range(ev.added)) \ Range(ev.removed)
observe(ev) == IF observer THEN applyEvent(mirror, ev) ELSE mirror

\* Element style as the DOM has it before any assignment; a length is the
\* number of its pixels, <<n>> for n + 'px'.
Unset == ""
NoStyle == [display |-> Unset, top |-> <<>>, left |-> <<>>]
This == "this"

\* defaultValue(a, b), Core/defaultValue.
defaultValue(a, b) == IF defined(a) THEN a ELSE b

\* The constructor, lines 34-55, called with the show argument showArg.
toBoolean(x) == x = "true"
ShowArgs == {"true", "false", Undefined}

Constructed(showArg) ==
    /\ labels = Empty
    /\ addedLabels = Empty
    /\ removedLabels = Empty
    /\ container = {}
    /\ firing = FALSE
    /\ refire = FALSE
    /\ depth = 0
    /\ cur = NoEvent
    /\ fires = 0
    /\ calls = 0
    /\ dirty = 0
    /\ top = [op |-> "new", arg |-> Undefined, firing |-> FALSE, status |-> "returned"]
    /\ last = [op |-> "new", arg |-> Undefined, ret |-> "void", nested |-> FALSE]
    /\ thrown = FALSE
    /\ mirror = {}
    /\ show = toBoolean(defaultValue(showArg, "true"))
    /\ containerDisplay = Unset
    /\ preRender = <<This>>
    /\ style = [l \in Labels |-> NoStyle]
    /\ syncs = 0

\* A collection constructed without the show argument, no observer, every
\* label with its own show flag set and behind the camera.
Init ==
    /\ Constructed(Undefined)
    /\ observer = FALSE
    /\ labelShow = [l \in Labels |-> TRUE]
    /\ view = [l \in Labels |-> "behind"]

(***************************************************************************)
(* Bookkeeping of the step just taken.  A call at depth 0 is a top-level   *)
(* call; a call at depth > 0 is made by a listener.                        *)
(***************************************************************************)
CanCall == depth = 0 \/ (fires < MaxFires /\ calls < MaxCalls)

Called(op, arg, ret, reachedFire) ==
    /\ last' = [op |-> op, arg |-> arg, ret |-> ret, nested |-> (depth > 0)]
    /\ UNCHANGED <<thrown, observer>>
    /\ IF depth = 0
       THEN /\ top' = [op |-> op, arg |-> arg, firing |-> firing,
                       status |-> IF depth' > 0 THEN "running" ELSE "returned"]
            /\ calls' = 0
            /\ dirty' = 0
       ELSE /\ top' = top
            /\ calls' = IF depth' > depth THEN 0
                        ELSE IF reachedFire THEN calls + 1 ELSE calls
            /\ dirty' = IF reachedFire /\ calls = 0 THEN dirty + 1 ELSE dirty

\* A call that returns before it reaches fireChangedEvent.
noFire ==
    /\ UNCHANGED <<addedLabels, removedLabels, firing, refire, depth, cur>>
    /\ UNCHANGED mirror
    /\ fires' = IF depth = 0 THEN 0 ELSE fires

(***************************************************************************)
(* fireChangedEvent(collection), lines 141-162, up to the raiseEvent call. *)
(* A and R are the pending arrays as the caller left them.                 *)
(***************************************************************************)
\* The test of line 142 left out: every call raises the event itself.
fireDeferred_never == FALSE
fireDeferred == firing
\* Line 143 left out: a deferred change asks for no replay.
deferredRefire_lost == refire
deferredRefire == TRUE
\* Line 149 testing the removed array alone.
fireNeeded_removedOnly(A, R) == Len(R) # 0
fireNeeded(A, R) == Len(A) # 0 \/ Len(R) # 0

fireChangedEvent(A, R) ==
    IF fireDeferred
    THEN /\ refire' = deferredRefire
         /\ addedLabels' = A
         /\ removedLabels' = R
         /\ UNCHANGED <<firing, depth, cur, mirror>>
         /\ fires' = IF depth = 0 THEN 0 ELSE fires
    ELSE IF fireNeeded(A, R)
    THEN /\ firing' = TRUE
         /\ refire' = FALSE
         /\ cur' = [added |-> A, removed |-> R]
         /\ mirror' = observe([added |-> A, removed |-> R])
         /\ addedLabels' = AAremoveAll(A)
         /\ removedLabels' = AAremoveAll(R)
         /\ depth' = depth + 1
         /\ fires' = IF depth = 0 THEN 1 ELSE fires + 1
    ELSE /\ addedLabels' = A
         /\ removedLabels' = R
         /\ UNCHANGED <<firing, refire, depth, cur, mirror>>
         /\ fires' = IF depth = 0 THEN 0 ELSE fires

(***************************************************************************)
(* The rest of the do/while loop of fireChangedEvent, lines 151-160:       *)
(* raiseEvent has returned; either the loop raises the event again with    *)
(* what the listeners left pending, or the call that fired returns.        *)
(***************************************************************************)
raiseEventReturns ==
    /\ depth > 0
    /\ IF refire
       THEN /\ refire' = FALSE
            /\ cur' = [added |-> addedLabels, removed |-> removedLabels]
            /\ mirror' = observe([added |-> addedLabels, removed |-> removedLabels])
            /\ addedLabels' = AAremoveAll(addedLabels)
            /\ removedLabels' = AAremoveAll(removedLabels)
            /\ fires' = fires + 1
            /\ calls' = 0
            /\ UNCHANGED <<firing, depth, top>>
       ELSE /\ firing' = FALSE
            /\ depth' = depth - 1
            /\ top' = IF depth = 1 THEN [top EXCEPT !.status = "returned"] ELSE top
            /\ UNCHANGED <<refire, cur, addedLabels, removedLabels, fires, calls>>
            /\ UNCHANGED mirror
    /\ last' = [op |-> "raiseEventReturns", arg |-> Undefined,
                ret |-> IF refire THEN "refire" ELSE "return", nested |-> FALSE]
    /\ UNCHANGED <<labels, container, dirty, thrown, observer, frameVars>>

(***************************************************************************)
(* DOMLabelCollection.prototype.add, lines 179-205.                        *)
(***************************************************************************)
\* Line 192 looking the id up in the pending-added array.
addDuplicate_pendingOnly(id) == AAcontains(addedLabels, id)
addDuplicate(id) == AAcontains(labels, id)
\* Line 197 left out.
addAppendChild_missing(label) == container
addAppendChild(label) == container \cup {label}
addPendingAdded(id, label) ==
    IF AAcontains(removedLabels, id) THEN addedLabels ELSE AAset(addedLabels, id, label)
addPendingRemoved(id) == AAremove(removedLabels, id)

\* RuntimeError at line 193.  Thrown inside a listener it propagates through
\* raiseEvent and fireChangedEvent (neither catches) to the top-level caller.
addThrows(label) ==
    /\ UNCHANGED <<labels, container, addedLabels, removedLabels, firing, refire, cur>>
    /\ depth' = 0
    /\ fires' = IF depth = 0 THEN 0 ELSE fires
    /\ UNCHANGED <<calls, dirty, mirror, observer>>
    /\ thrown' = (thrown \/ depth > 0)
    /\ top' = IF depth = 0
              THEN [op |-> "add", arg |-> label, firing |-> firing, status |-> "thrown"]
              ELSE [top EXCEPT !.status = "thrown"]
    /\ last' = [op |-> "add", arg |-> label, ret |-> "throw", nested |-> (depth > 0)]

add(label) ==
    /\ CanCall
    /\ UNCHANGED frameVars
    /\ LET id == idOf[label] IN
       IF addDuplicate(id)
       THEN addThrows(label)
       ELSE /\ container' = addAppendChild(label)
            /\ labels' = AAset(labels, id, label)
            /\ fireChangedEvent(addPendingAdded(id, label), addPendingRemoved(id))
            /\ Called("add", label, "label", TRUE)

(***************************************************************************)
(* DOMLabelCollection.prototype.removeById, lines 252-273, and remove,     *)
(* lines 217-222, which delegates to it with label.id.                     *)
(***************************************************************************)
removeByIdFound(id) == defined(id) /\ AAcontains(labels, id)
\* Line 261 left out.
removeByIdPendingAdded_kept(id) == addedLabels
removeByIdPendingAdded(id) == AAremove(addedLabels, id)
removeByIdPendingRemoved(id, label) ==
    IF AAcontains(addedLabels, id) THEN removedLabels ELSE AAremove(removedLabels, id)
\* Line 269 left out.
removeByIdRemoveChild_missing(label) == container
removeByIdRemoveChild(label) == container \ {label}

removeByIdBody(op, arg, id) ==
    IF ~removeByIdFound(id)
    THEN /\ noFire
         /\ UNCHANGED <<labels, container>>
         /\ Called(op, arg, "false", FALSE)
    ELSE LET label == AAget(labels, id) IN
         /\ labels' = AAremove(labels, id)
         /\ container' = removeByIdRemoveChild(label)
         /\ fireChangedEvent(removeByIdPendingAdded(id),
                             removeByIdPendingRemoved(id, label))
         /\ Called(op, arg, "true", TRUE)

removeById(id) ==
    /\ CanCall
    /\ UNCHANGED frameVars
    /\ removeByIdBody("removeById", id, id)

removeArgId(label) == IF defined(label) THEN idOf[label] ELSE Undefined

remove(label) ==
    /\ CanCall
    /\ UNCHANGED frameVars
    /\ removeByIdBody("remove", label, removeArgId(label))

\* DOMLabelCollection.prototype.contains, lines 235-240.
contains(label) == AAget(labels, idOf[label]) = label

(***************************************************************************)
(* DOMLabelCollection.prototype.removeAll, lines 278-300.                  *)
(***************************************************************************)
\* Line 290 with the test inverted.
removeAllSkips_inverted(existingItem) == ~defined(AAget(addedLabels, idOf[existingItem]))
removeAllSkips(existingItem) == defined(AAget(addedLabels, idOf[existingItem]))

RECURSIVE removeAllLoop(_, _, _)
\* The for loop of lines 286-295 from index i on: <<container, removedLabels>>.
removeAllLoop(i, cont, removed) ==
    IF i > Len(labels)
    THEN <<cont, removed>>
    ELSE LET existingItem == labels[i] IN
         IF removeAllSkips(existingItem)
         THEN removeAllLoop(i + 1, cont, removed)
         ELSE removeAllLoop(i + 1, cont \ {existingItem},
                            AAset(removed, idOf[existingItem], existingItem))

removeAll ==
    /\ CanCall
    /\ UNCHANGED frameVars
    /\ LET res == removeAllLoop(1, container, removedLabels) IN
       /\ container' = res[1]
       /\ labels' = AAremoveAll(labels)
       /\ fireChangedEvent(AAremoveAll(addedLabels), res[2])
       /\ Called("removeAll", Undefined, "void", TRUE)

Next ==
    \/ \E label \in Labels : add(label)
    \/ \E label \in LabelArgs : remove(label)
    \/ \E id \in IdArgs : removeById(id)
    \/ removeAll
    \/ raiseEventReturns

Spec == Init /\ [][Next]_vars

\* The same collection with the observer's listener on collectionChanged
\* from construction on.
InitObserved ==
    /\ Constructed(Undefined)
    /\ observer = TRUE
    /\ labelShow = [l \in Labels |-> TRUE]
    /\ view = [l \in Labels |-> "behind"]

SpecObserved == InitObserved /\ [][Next]_vars

(***************************************************************************)
(* The scene's preRender event (Core/Event) as the collection uses it: the *)
(* scopes its renderFrame listeners were added with, in order.             *)
(* removeEventListener removes the first listener added with the function  *)
(* and the scope it is given, if there is one.                             *)
(***************************************************************************)
addEventListener(listeners, scope) == Append(listeners, scope)
removeEventListener(listeners, scope) ==
    IF \E i \in 1..Len(listeners) : listeners[i] = scope
    THEN LET i == CHOOSE j \in 1..Len(listeners) :
                    /\ listeners[j] = scope
                    /\ \A k \in 1..(j - 1) : listeners[k] # scope
         IN SubSeq(listeners, 1, i - 1) \o SubSeq(listeners, i + 1, Len(listeners))
    ELSE listeners

(***************************************************************************)
(* The show setter, lines 103-123.                                         *)
(***************************************************************************)
showSameValue(value) == value = show
showDisplay(value) == IF value THEN "block" ELSE "none"
\* The scope the setter removes the listener with: none is passed, line 121.
showRemoveScope == Undefined
showListeners(value) ==
    IF value
    THEN addEventListener(preRender, This)
    ELSE removeEventListener(preRender, showRemoveScope)

showSet(value) ==
    /\ depth = 0
    /\ Len(preRender) < MaxListeners
    /\ IF showSameValue(value)
       THEN UNCHANGED <<show, containerDisplay, preRender>>
       ELSE /\ show' = value
            /\ containerDisplay' = showDisplay(value)
            /\ preRender' = showListeners(value)
    /\ last' = [op |-> "show", arg |-> IF value THEN "true" ELSE "false",
                ret |-> "void", nested |-> FALSE]
    /\ UNCHANGED <<labels, addedLabels, removedLabels, container, firing, refire,
                   depth, cur, fires, calls, dirty, top, thrown, observer, mirror>>
    /\ UNCHANGED <<labelShow, view, style, syncs>>

(***************************************************************************)
(* What renderFrame reads of a label and of the scene.  A label's position *)
(* is behind the camera (the dot product of line 333 is negative), or in   *)
(* front of it and projected by scene.cartesianToCanvasCoordinates to a    *)
(* point of the canvas or to undefined.                                    *)
(***************************************************************************)
Views == {"behind", "offscreen", "p1", "p2"}
dotNegative(label) == view[label] = "behind"
\* A canvas point is <<x, y>>; the undefined result is the empty tuple.
UndefinedPoint == <<>>
definedPoint(p) == p # UndefinedPoint
cartesianToCanvasCoordinates(label) ==
    CASE view[label] = "p1" -> <<10, 20>>
      [] view[label] = "p2" -> <<30, 8>>
      [] OTHER -> UndefinedPoint
vOffset(label) == IF label = "b1" THEN 2 ELSE 0
hOffset(label) == IF label = "b1" THEN 0 ELSE 3
offsetHeight(label) == 4
offsetWidth(label) == 6

\* label.show = value (DOMLabel): the flag renderFrame reads at line 332.
labelShowSet(label, value) ==
    /\ depth = 0
    /\ labelShow' = [labelShow EXCEPT ![label] = value]
    /\ last' = [op |-> "labelShow", arg |-> Undefined, ret |-> "void", nested |-> FALSE]
    /\ UNCHANGED <<labels, addedLabels, removedLabels, container, firing, refire,
                   depth, cur, fires, calls, dirty, top, thrown, observer, mirror>>
    /\ UNCHANGED <<show, containerDisplay, preRender, view, style, syncs>>

\* The camera or the label moves.
viewChanges(label, v) ==
    /\ depth = 0
    /\ view' = [view EXCEPT ![label] = v]
    /\ last' = [op |-> "view", arg |-> Undefined, ret |-> "void", nested |-> FALSE]
    /\ UNCHANGED <<labels, addedLabels, removedLabels, container, firing, refire,
                   depth, cur, fires, calls, dirty, top, thrown, observer, mirror>>
    /\ UNCHANGED <<show, containerDisplay, preRender, labelShow, style, syncs>>

(***************************************************************************)
(* renderFrame, lines 325-346, and a rendered frame: the scene raises      *)
(* preRender, which calls every listener once with its scope.              *)
(***************************************************************************)
\* Line 326 without the test of this._show.
renderFrameGuard_always == Len(labels) # 0
renderFrameGuard == show /\ Len(labels) # 0
\* Line 334 left out.
renderFrameHidden_skipped(st) == st
renderFrameHidden(st) == [st EXCEPT !.display = "none"]
renderFramePlaced(label, st, positionScratch) ==
    [display |-> "block",
     top |-> <<(vOffset(label) + positionScratch[2]) - (offsetHeight(label) \div 2)>>,
     left |-> <<(hOffset(label) + positionScratch[1]) - (offsetWidth(label) \div 2)>>]
\* Lines 337-341: nothing is done when the projection is undefined.
renderFrameProjected(label, st, positionScratch) ==
    IF definedPoint(positionScratch)
    THEN renderFramePlaced(label, st, positionScratch)
    ELSE st
\* Lines 332-343 for one label: the style of its element afterwards.
renderFrameLabel(label, st) ==
    IF labelShow[label]
    THEN IF dotNegative(label)
         THEN renderFrameHidden(st)
         ELSE renderFrameProjected(label, st, cartesianToCanvasCoordinates(label))
    ELSE st

RECURSIVE renderFrameLoop(_, _)
renderFrameLoop(i, styles) ==
    IF i > Len(labels)
    THEN styles
    ELSE renderFrameLoop(i + 1,
            [styles EXCEPT ![labels[i]] = renderFrameLabel(labels[i], styles[labels[i]])])

renderFrame(styles) == IF renderFrameGuard THEN renderFrameLoop(1, styles) ELSE styles

RECURSIVE raisePreRender(_, _)
\* The listeners from index i on, called in order.
raisePreRender(i, styles) ==
    IF i > Len(preRender) THEN styles ELSE raisePreRender(i + 1, renderFrame(styles))

renderScene ==
    /\ depth = 0
    /\ style' = raisePreRender(1, style)
    /\ syncs' = Len(preRender)
    /\ last' = [op |-> "renderScene", arg |-> Undefined, ret |-> "void", nested |-> FALSE]
    /\ UNCHANGED <<labels, addedLabels, removedLabels, container, firing, refire,
                   depth, cur, fires, calls, dirty, top, thrown, observer, mirror>>
    /\ UNCHANGED <<show, containerDisplay, preRender, labelShow, view>>

(***************************************************************************)
(* The collection under a rendering scene: constructed with any show       *)
(* argument; between frames the application adds and removes labels, sets  *)
(* show, sets a label's show flag and moves the camera.                    *)
(***************************************************************************)
FrameLabels == {"a1", "b1"}

InitFrame ==
    /\ \E showArg \in ShowArgs : Constructed(showArg)
    /\ observer = FALSE
    /\ labelShow = [l \in Labels |-> TRUE]
    /\ view = [l \in Labels |-> "behind"]

frameAdd(label) == depth = 0 /\ ~AAcontains(labels, idOf[label]) /\ add(label)
frameNotified == calls = 0 /\ raiseEventReturns

NextFrame ==
    \/ \E label \in FrameLabels : frameAdd(label)
    \/ frameNotified
    \/ \E value \in BOOLEAN : showSet(value)
    \/ \E label \in FrameLabels, value \in BOOLEAN : labelShowSet(label, value)
    \/ \E label \in FrameLabels, v \in Views : viewChanges(label, v)
    \/ renderScene

SpecFrame == InitFrame /\ [][NextFrame]_vars

(***************************************************************************)
(* Properties.  A step is identified by last', which every action sets.    *)
(* No notification is in progress when depth = 0; the collection's own     *)
(* record of that is _firing = false (line 142), and the two differ once a *)
(* listener has thrown.                                                    *)
(***************************************************************************)
RealIds == {idOf[l] : l \in Labels}
NoPending == addedLabels = Empty /\ removedLabels = Empty
StepIs(op) == last'.op = op
\* The raiseEvent calls the step makes (fires restarts with a top-level call).
StepRaises == IF depth > 0 THEN fires' - fires ELSE fires'
\* The id a remove / removeById step was called with.
StepRemoves(id) ==
    \/ StepIs("removeById") /\ last'.arg = id
    \/ StepIs("remove") /\ last'.arg \in Labels /\ removeArgId(last'.arg) = id

\* C1: a successful remove / removeById made while no notification is in
\* progress raises exactly one notification before it returns, and the
\* removed label is in its removed list.
C1_RemoveNotifies ==
    [][\A id \in RealIds :
        (~firing /\ StepRemoves(id) /\ AAcontains(labels, id))
            => /\ StepRaises = 1
               /\ depth' = 1
               /\ AAget(labels, id) \in Range(cur'.removed)]_vars

\* C2: removeAll, from any state and also when a listener calls it, leaves
\* the collection empty and leaves in the container no element of a label
\* that was in the collection before the call.
C2_RemoveAllDetachesAll ==
    [][StepIs("removeAll")
        => /\ labels' = Empty
           /\ \A l \in Range(labels) : l \notin container']_vars

\* C3: add of a label whose id is already in the collection throws, changes
\* neither the collection, the container nor the pending arrays, and raises
\* no notification.
C3_DuplicateAddFails ==
    [][\A l \in Labels :
        (StepIs("add") /\ last'.arg = l /\ AAcontains(labels, idOf[l]))
            => /\ last'.ret = "throw"
               /\ UNCHANGED <<labels, container, addedLabels, removedLabels>>
               /\ StepRaises = 0
               /\ cur' = cur]_vars

C3_Witness ==
    /\ last.op = "add" /\ last.ret = "throw" /\ last.arg = "a2"
    /\ AAget(labels, "a") = "a1"

\* C4: in every reachable state every label of the collection has its
\* element under the container.
C4_LabelsParented == Range(labels) \subseteq container

C4_Witness ==
    /\ depth = 1 /\ last.nested /\ last.op = "removeById" /\ last.ret = "true"
    /\ Len(labels) = 1

\* C5: add of a label with a new id, made while no notification is in
\* progress (no raiseEvent call is on the stack), inserts the label and
\* raises exactly one notification before returning, whose added list is that
\* label alone and whose removed list is empty, and leaves both pending
\* arrays empty.
C5_AddNotifies ==
    [][\A l \in Labels :
        (depth = 0 /\ StepIs("add") /\ last'.arg = l /\ ~AAcontains(labels, idOf[l]))
            => /\ AAget(labels', idOf[l]) = l
               /\ l \in container'
               /\ StepRaises = 1
               /\ cur' = [added |-> <<l>>, removed |-> Empty]
               /\ NoPending']_vars

\* What does hold of add: the same with _firing = false for "no notification
\* is in progress"; and once such an add has returned, both pending arrays
\* are empty and the notifications it raised are that one and one replay per
\* delivery in which listeners made calls.
C5_AddStepNotFiring ==
    \A l \in Labels :
        (~firing /\ StepIs("add") /\ last'.arg = l /\ ~AAcontains(labels, idOf[l]))
            => /\ AAget(labels', idOf[l]) = l
               /\ l \in container'
               /\ last'.ret = "label"
               /\ StepRaises = 1
               /\ depth' = 1
               /\ cur' = [added |-> <<l>>, removed |-> Empty]
               /\ NoPending'
C5_AddReturned ==
    (top.op = "add" /\ ~top.firing /\ top.status = "returned")
        => NoPending /\ fires = 1 + dirty
C5_HoldsWhileNotFiring == [][C5_AddStepNotFiring]_vars /\ []C5_AddReturned

C6_ListenerCall ==
    last'.nested
        => /\ StepRaises = 0
           /\ cur' = cur
           /\ depth' <= depth
           /\ (last'.ret \in {"label", "true", "void"} => refire')
\* C6: notifications are never nested: a call a listener makes during a
\* delivery raises no notification (no raiseEvent call is made, none is on
\* the stack above the current one); a call that reaches fireChangedEvent
\* only marks the delivery for a replay.
C6_NotNested == [](depth <= 1) /\ [][C6_ListenerCall]_vars

C6_Witness ==
    /\ depth = 1 /\ last.nested /\ last.op = "add" /\ last.ret = "label"
    /\ refire /\ addedLabels # Empty

C7_DeliveryReturns ==
    (StepIs("raiseEventReturns") /\ depth = 1)
        => IF calls > 0
           THEN /\ fires' = fires + 1
                /\ depth' = 1
                /\ cur' = [added |-> addedLabels, removed |-> removedLabels]
                /\ NoPending'
           ELSE /\ fires' = fires
                /\ depth' = 0
                /\ cur' = cur
C7_Returned == (top.status = "returned" /\ fires > 0) => fires = 1 + dirty
\* C7: when a delivery returns, exactly one further notification is raised
\* if listeners made one or more calls that reached fireChangedEvent during
\* it (however many), carrying everything left pending, and none otherwise.
C7_OneReplayPerDelivery == [][C7_DeliveryReturns]_vars /\ []C7_Returned

C7_Witness ==
    /\ last.op = "raiseEventReturns" /\ last.ret = "refire"
    /\ fires = 2 /\ dirty = 1
    /\ Len(cur.added) = 1 /\ Len(cur.removed) = 1

C8_RemoveByIdStep ==
    \A id \in IdArgs :
        (StepIs("removeById") /\ last'.arg = id)
            => /\ last'.ret \in {"true", "false"}
               /\ last'.ret = "true" <=> AAcontains(labels, id)
               /\ last'.ret = "true"
                    => /\ ~AAcontains(labels', id)
                       /\ AAget(labels, id) \notin container'
               /\ last'.ret = "false"
                    => /\ UNCHANGED <<labels, container, addedLabels, removedLabels>>
                       /\ StepRaises = 0
                       /\ UNCHANGED <<cur, depth>>
\* C8: removeById(id) returns true exactly when a label with that id was in
\* the collection; after true no label has the id and the removed label's
\* element is not under the container; after false nothing has changed and
\* no notification is raised.
C8_RemoveByIdResult == [][C8_RemoveByIdStep]_vars

C8_Witness ==
    /\ last.op = "removeById" /\ last.ret = "true" /\ last.arg = "a"
    /\ labels = <<"b1">> /\ container = {"b1"}

\* C9: remove(label) returns false and leaves the collection unchanged for
\* every label object for which contains(label) is false.
C9_RemoveForeignLabelFails ==
    [][\A l \in Labels :
        (StepIs("remove") /\ last'.arg = l /\ ~contains(l))
            => last'.ret = "false" /\ labels' = labels]_vars

\* C10: removeAll made while no notification is in progress (no raiseEvent
\* call is on the stack) raises, on a non-empty collection, exactly one
\* notification, whose removed list is the labels that were in the collection
\* and whose added list is empty; on an empty collection it raises none.
C10_RemoveAllFiresOnce ==
    [][(depth = 0 /\ StepIs("removeAll"))
        => IF Len(labels) > 0
           THEN /\ StepRaises = 1
                /\ cur'.added = Empty
                /\ Range(cur'.removed) = Range(labels)
                /\ Len(cur'.removed) = Len(labels)
           ELSE StepRaises = 0]_vars

\* What does hold of removeAll: the same with _firing = false for "no
\* notification is in progress"; the other notifications of the call are
\* replays of deliveries in which listeners made calls.
C10_RemoveAllStepNotFiring ==
    (~firing /\ StepIs("removeAll"))
        => IF Len(labels) > 0
           THEN /\ StepRaises = 1
                /\ depth' = 1
                /\ cur'.added = Empty
                /\ Range(cur'.removed) = Range(labels)
                /\ Len(cur'.removed) = Len(labels)
           ELSE /\ StepRaises = 0
                /\ depth' = 0
                /\ cur' = cur
C10_RemoveAllReturned ==
    (top.op = "removeAll" /\ ~top.firing /\ top.status = "returned")
        => (fires > 0 => fires = 1 + dirty)
C10_HoldsWhileNotFiring ==
    [][C10_RemoveAllStepNotFiring]_vars /\ []C10_RemoveAllReturned

(***************************************************************************)
(* Properties of the per-frame synchronization and of show (SpecFrame).    *)
(***************************************************************************)
\* A rendered frame that called renderFrame on a shown collection.
StepSyncsShown == StepIs("renderScene") /\ show /\ syncs' >= 1
ProjectionFails(l) == ~definedPoint(cartesianToCanvasCoordinates(l))

\* C11: after a per-frame synchronization of a shown collection every label
\* whose own show flag is set and whose position is behind the camera has its
\* element hidden, and the synchronization changed neither its top nor its
\* left.
C11_BehindHidden ==
    [][StepSyncsShown
        => \A l \in Range(labels) :
            (labelShow[l] /\ dotNegative(l))
                => /\ style'[l].display = "none"
                   /\ style'[l].top = style[l].top
                   /\ style'[l].left = style[l].left]_vars

C11_Witness ==
    /\ last.op = "renderScene" /\ show /\ syncs >= 1
    /\ "a1" \in Range(labels) /\ labelShow["a1"] /\ view["a1"] = "behind"
    /\ style["a1"].display = "none" /\ style["a1"].top # <<>>

\* C12: after a per-frame synchronization of a shown collection every label
\* whose own show flag is set, that is not behind the camera and whose
\* projection is undefined has its element hidden.
C12_OffscreenHidden ==
    [][StepSyncsShown
        => \A l \in Range(labels) :
            (labelShow[l] /\ ~dotNegative(l) /\ ProjectionFails(l))
                => style'[l].display = "none"]_vars

\* C13: renderFrame is registered on scene.preRender exactly when show is
\* true.
C13_HookFollowsShow == (Len(preRender) > 0) <=> show

\* C14: one rendered frame calls renderFrame at most once, and exactly once
\* while the collection is shown.
C14_OneSyncPerFrame ==
    last.op = "renderScene" => (syncs <= 1 /\ (show => syncs = 1))

C15_SameValue ==
    \A value \in BOOLEAN :
        (StepIs("show") /\ last'.arg = (IF value THEN "true" ELSE "false")
            /\ value = show)
            => UNCHANGED <<show, containerDisplay, preRender>>
\* C15: the container is hidden whenever show is false and displayed whenever
\* it is true, and assigning show its current value changes nothing.
C15_ContainerFollowsShow ==
    [](show <=> containerDisplay # "none") /\ [][C15_SameValue]_vars

\* C16: a rendered frame changes no label element's style while show is
\* false; while show is true it changes the style of no element whose
\* label's own show flag is false; and it never changes the collection or
\* the pending arrays.
C16_FrameEffect ==
    [][StepIs("renderScene")
        => /\ ~show => style' = style
           /\ \A l \in Labels : ~labelShow[l] => style'[l] = style[l]
           /\ UNCHANGED <<labels, addedLabels, removedLabels, container>>]_vars

C16_Witness ==
    /\ last.op = "renderScene" /\ show /\ syncs >= 1
    /\ labels = <<"a1", "b1">>
    /\ ~labelShow["a1"] /\ view["a1"] = "p1" /\ style["a1"] = NoStyle
    /\ labelShow["b1"] /\ style["b1"].display = "block"

(***************************************************************************)
(* Properties of the notifications as a listener sees them.                *)
(***************************************************************************)
\* C17: whenever no collection operation is in progress, the mirror of a
\* listener that inserts each notification's added labels and deletes its
\* removed labels equals the set of labels in the collection.
C17_MirrorEqualsCollection == (observer /\ depth = 0) => mirror = Range(labels)

\* C18: collection-changed is never raised with both its added list and its
\* removed list empty, the replay after a listener's calls included.
C18_NoEmptyNotification ==
    [][StepRaises >= 1 => (cur'.added # Empty \/ cur'.removed # Empty)]_vars

C19_LaterAddNotifies ==
    (thrown /\ depth = 0 /\ StepIs("add") /\ last'.ret = "label")
        => StepRaises = 1
\* C19: once a listener's exception has propagated out of the notification
\* the firing flag is false again, and a later successful add outside any
\* notification raises a notification.
C19_ListenerFailureRecovered ==
    []((thrown /\ depth = 0) => ~firing) /\ [][C19_LaterAddNotifies]_vars

C20_AddedInCollection == Range(addedLabels) \subseteq Range(labels)
C20_RemovedNotInCollection ==
    \A l \in Range(removedLabels) : ~AAcontains(labels, idOf[l])
C20_PendingDisjoint ==
    \A id \in RealIds : ~(AAcontains(addedLabels, id) /\ AAcontains(removedLabels, id))
\* C20: in every reachable state every pending-added label is in the
\* collection, no pending-removed id is in the collection and no id is in
\* both pending arrays; and both are empty whenever no collection operation
\* is in progress and no listener has thrown.
C20_PendingConsistent ==
    /\ C20_AddedInCollection
    /\ C20_RemovedNotInCollection
    /\ C20_PendingDisjoint
    /\ (depth = 0 /\ ~thrown) => NoPending

C20_Witness ==
    /\ depth > 0
    /\ addedLabels # Empty /\ removedLabels # Empty
    /\ last.op = "add" /\ last.nested

====
